---- MODULE Spec2Model ----
(***************************************************************************)
(* Model of the inventory tracker's backend (src/backend.js): the          *)
(* authenticateToken middleware, the register/login routes and the four    *)
(* item routes, run against the User and Item collections; and of the      *)
(* token handling of its client (src/frontend.jsx): the token state of     *)
(* App (clientToken), the 'token' entry of local storage (storedToken) and *)
(* the default Authorization header of axios (axiosAuth).                  *)
(*                                                                         *)
(* A request is a small process.  Its arrival runs the synchronous part of *)
(* the route (the middleware and the handler up to its first await); each  *)
(* later step is one database operation together with the continuation     *)
(* that runs when it resolves.  Requests in different slots interleave at  *)
(* these steps, as they do on the Node event loop.                         *)
(***************************************************************************)
EXTENDS Integers, Sequences, FiniteSets, TLC

VARIABLES users, items, nextId, now, ticks, req, clientToken, storedToken,
          axiosAuth

vars == <<users, items, nextId, now, ticks, req, clientToken, storedToken,
          axiosAuth>>

----------------------------------------------------------------------------
(* Bounds of the model *)

MaxTicks == 2        \* how many times the clock advances
TickStep == 1800     \* seconds per clock advance
MaxItems == 2        \* how many items are ever created
ItemTicks == 1       \* how many times the clock advances while items are edited
MaxUsers == 2        \* how many users are ever stored
GateItems == 1       \* how many items are created where the headers vary

(* Program constants *)

JWT_SECRET == "your-jwt-secret-key"
ExpiresIn == 3600    \* '1h', in seconds
SaltRounds == 10

----------------------------------------------------------------------------
(* Values.  An optional value (a body field that may be undefined, a       *)
(* document field that may be unset) is <<>> when undefined and <<v>>      *)
(* otherwise.                                                              *)

Undefined == <<>>
Some(v) == <<v>>
IsDefined(o) == o # <<>>

Slots == {"r1"}
RaceSlots == {"r1", "r2"}

Usernames == {"ann", "bob"}
Passwords == {"pw1", "pw2"}
OptOf(S) == {Undefined} \cup {Some(v) : v \in S}

AuthRoutes == {"register", "login"}
ItemRoutes == {"list", "create", "update", "delete"}

----------------------------------------------------------------------------
(* bcryptjs: a hash carries its salt; compare re-hashes the candidate with *)
(* the salt of the stored hash.                                            *)

BcryptHash(password, salt) ==
  [rounds |-> SaltRounds, salt |-> salt, digest |-> <<salt, password>>]

BcryptCompare(password, hash) ==
  BcryptHash(password, hash.salt).digest = hash.digest

----------------------------------------------------------------------------
(* jsonwebtoken: a token is a payload and a signature over it.  A word of  *)
(* a header that is not a token is [str |-> s].                            *)

JwtMac(payload, secret) == [key |-> secret, data |-> payload]

\* mutant: the expiry is taken in milliseconds, so the token lasts 3.6 s
JwtSignShortLived(payload, secret, t) ==
  LET claims == [user |-> payload.user, iat |-> t, exp |-> t + (ExpiresIn \div 1000)]
  IN  [payload |-> claims, sig |-> JwtMac(claims, secret)]

JwtSign(payload, secret, t) ==
  LET claims == [user |-> payload.user, iat |-> t, exp |-> t + ExpiresIn]
  IN  [payload |-> claims, sig |-> JwtMac(claims, secret)]

IsJwt(w) == "payload" \in DOMAIN w

\* mutant: verify with ignoreExpiration
JwtVerifyIgnoreExpiration(w, secret, t) ==
  IF ~IsJwt(w) THEN [err |-> "JsonWebTokenError", user |-> Undefined]
  ELSE IF w.sig # JwtMac(w.payload, secret)
       THEN [err |-> "JsonWebTokenError", user |-> Undefined]
  ELSE [err |-> "", user |-> Some(w.payload)]

\* jwt.verify(token, secret, cb): the arguments cb is called with
JwtVerify(w, secret, t) ==
  IF ~IsJwt(w) THEN [err |-> "JsonWebTokenError", user |-> Undefined]
  ELSE IF w.sig # JwtMac(w.payload, secret)
       THEN [err |-> "JsonWebTokenError", user |-> Undefined]
  ELSE IF t >= w.payload.exp
       THEN [err |-> "TokenExpiredError", user |-> Undefined]
  ELSE [err |-> "", user |-> Some(w.payload)]

----------------------------------------------------------------------------
(* The Authorization header: Undefined when the request has none, else    *)
(* Some(words), the words being what split(' ') yields.  The empty header  *)
(* value is Some(<<>>).                                                    *)

NoHeader == Undefined
StrWord(s) == [str |-> s]

\* const token = authHeader && authHeader.split(' ')[1]
HeaderToken(authHeader) ==
  IF authHeader = NoHeader THEN Undefined
  ELSE IF authHeader[1] = <<>> THEN Some(StrWord(""))
  ELSE IF Len(authHeader[1]) >= 2 THEN Some(authHeader[1][2])
  ELSE Undefined

\* the outcome of jwt.verify's callback: a response status, or 0 for next()
VerifyCallback(token, t) ==
  LET v == JwtVerify(token, JWT_SECRET, t)
  IN  IF v.err # ""
      THEN [status |-> 403, message |-> "Token is invalid", user |-> Undefined]
      ELSE [status |-> 0, message |-> "", user |-> v.user]

\* mutant: the callback goes on to next() when verify reports an error
authenticateTokenFallsThrough(authHeader, t) ==
  LET token == HeaderToken(authHeader)
  IN  IF token = Undefined
      THEN [status |-> 401, message |-> "No token provided", user |-> Undefined]
      ELSE [status |-> 0, message |-> "", user |-> JwtVerify(token[1], JWT_SECRET, t).user]

\* mutant: no check for a missing token; verify is handed undefined
authenticateTokenNoPresenceCheck(authHeader, t) ==
  LET token == HeaderToken(authHeader)
  IN  IF token = Undefined
      THEN [status |-> 403, message |-> "Token is invalid", user |-> Undefined]
      ELSE VerifyCallback(token[1], t)

\* the outcome of the middleware: a response status, or 0 for next()
authenticateToken(authHeader, t) ==
  LET token == HeaderToken(authHeader)
  IN  IF token = Undefined
      THEN [status |-> 401, message |-> "No token provided", user |-> Undefined]
      ELSE VerifyCallback(token[1], t)

\* what a client can do to a token it holds
TamperSig(tok) == [tok EXCEPT !.sig = JwtMac(tok.payload, "forged-key")]
TamperExp(tok) == [tok EXCEPT !.payload.exp = @ + ExpiresIn]

TokenForms(tok) == {tok, TamperSig(tok), TamperExp(tok)}

HeadersOf(held) ==
  {NoHeader, Some(<<>>), Some(<<StrWord("Bearer")>>),
   Some(<<StrWord("Bearer"), StrWord("garbage")>>)}
  \cup (IF held = Undefined THEN {}
        ELSE {Some(<<StrWord("Bearer"), w>>) : w \in TokenForms(held[1])}
             \cup {Some(<<StrWord("Basic"), held[1]>>)})

\* the headers tried on the public routes
PublicHeadersOf(held) ==
  {NoHeader, Some(<<StrWord("Bearer"), StrWord("garbage")>>)}
  \cup (IF held = Undefined THEN {} ELSE {Some(<<StrWord("Bearer"), held[1]>>)})

\* the header the client sets once it holds a token (frontend.jsx line 34)
BearerOf(held) ==
  IF held = Undefined THEN NoHeader ELSE Some(<<StrWord("Bearer"), held[1]>>)

----------------------------------------------------------------------------
(* Requests *)

NoBody == [username |-> Undefined, password |-> Undefined, name |-> Undefined,
           quantity |-> Undefined, description |-> Undefined]

Idle ==
  [route |-> "none", pc |-> "idle", hdr |-> NoHeader, body |-> NoBody,
   id |-> 0, user |-> Undefined, doc |-> Undefined, modified |-> {},
   status |-> 0, message |-> "", error |-> "", data |-> Undefined]

Free(r) == req[r].pc \in {"idle", "done"}

\* res.status(s).json({message: m})  /  res.json(data)
Respond(q, s, m, d) ==
  [q EXCEPT !.pc = "done", !.status = s, !.message = m, !.data = d,
            !.doc = Undefined, !.modified = {}]

\* the catch block of every route:
\* res.status(500).json({ message: 'Server error', error: err.message })
ServerError(q, errMessage) ==
  [Respond(q, 500, "Server error", Undefined) EXCEPT !.error = errMessage]

\* err.message of the errors save() throws
DuplicateKeyMessage == "E11000 duplicate key error"
ValidationMessage == "Item validation failed"
NotFoundMessage == "No document found for query"

----------------------------------------------------------------------------
(* The User collection: a sequence of documents, the index being the _id. *)

UserFindOne(us, username) ==
  IF \E i \in 1..Len(us) : us[i].username = username
  THEN Some(us[CHOOSE i \in 1..Len(us) :
                 /\ us[i].username = username
                 /\ \A j \in 1..Len(us) : us[j].username = username => i <= j])
  ELSE Undefined

UserSaveOk(us, username) == \A i \in 1..Len(us) : us[i].username # username

\* mutant: the schema without unique: true
UserSaveNoIndex(us, username, hash) ==
  Append(us, [id |-> Len(us) + 1, username |-> username, password |-> hash])

\* user.save() of a new document, under the unique index on username:
\* the collection afterwards, or the same collection when the insert fails
UserSave(us, username, hash) ==
  IF UserSaveOk(us, username)
  THEN Append(us, [id |-> Len(us) + 1, username |-> username, password |-> hash])
  ELSE us

----------------------------------------------------------------------------
Init ==
  /\ users = <<>>
  /\ items = <<>>
  /\ nextId = 1
  /\ now = 0
  /\ ticks = 0
  /\ req = [r \in RaceSlots |-> Idle]
  /\ clientToken = Undefined
  /\ storedToken = Undefined
  /\ axiosAuth = NoHeader

Tick(maxTicks) ==
  /\ ticks < maxTicks
  /\ ticks' = ticks + 1
  /\ now' = now + TickStep
  /\ UNCHANGED <<users, items, nextId, req, clientToken, storedToken, axiosAuth>>

----------------------------------------------------------------------------
(* POST /api/auth/register *)

RegisterArrive(r, hdr, username, password) ==
  /\ Free(r)
  /\ Len(users) < MaxUsers
  /\ req' = [req EXCEPT ![r] =
       [Idle EXCEPT !.route = "register", !.pc = "findOne", !.hdr = hdr,
                    !.body = [NoBody EXCEPT !.username = Some(username),
                                            !.password = Some(password)]]]
  /\ UNCHANGED <<users, items, nextId, now, ticks, clientToken, storedToken, axiosAuth>>

\* mutant: no lookup before the insert
RegisterFindOneNoCheck(r) ==
  /\ req[r].route = "register" /\ req[r].pc = "findOne"
  /\ \E salt \in {"s1"} :
       req' = [req EXCEPT ![r] =
         [req[r] EXCEPT !.pc = "save",
                        !.doc = Some(BcryptHash(req[r].body.password[1], salt))]]
  /\ UNCHANGED <<users, items, nextId, now, ticks, clientToken, storedToken, axiosAuth>>

\* await User.findOne({ username }), then the hashing
RegisterFindOne(r) ==
  /\ req[r].route = "register" /\ req[r].pc = "findOne"
  /\ LET q == req[r]
         user == UserFindOne(users, q.body.username[1])
     IN  IF IsDefined(user)
         THEN req' = [req EXCEPT ![r] = Respond(q, 400, "User already exists", Undefined)]
         ELSE \E salt \in {"s1"} :
                req' = [req EXCEPT ![r] =
                  [q EXCEPT !.pc = "save",
                            !.doc = Some(BcryptHash(q.body.password[1], salt))]]
  /\ UNCHANGED <<users, items, nextId, now, ticks, clientToken, storedToken, axiosAuth>>

\* await user.save()
RegisterSave(r) ==
  /\ req[r].route = "register" /\ req[r].pc = "save"
  /\ LET q == req[r]
         username == q.body.username[1]
     IN  /\ users' = UserSave(users, username, q.doc[1])
         /\ req' = [req EXCEPT ![r] =
              IF UserSaveOk(users, username)
              THEN Respond(q, 201, "User registered successfully", Undefined)
              ELSE ServerError(q, DuplicateKeyMessage)]
  /\ UNCHANGED <<items, nextId, now, ticks, clientToken, storedToken, axiosAuth>>

----------------------------------------------------------------------------
(* POST /api/auth/login *)

LoginArrive(r, hdr, username, password) ==
  /\ Free(r)
  /\ req' = [req EXCEPT ![r] =
       [Idle EXCEPT !.route = "login", !.pc = "findOne", !.hdr = hdr,
                    !.body = [NoBody EXCEPT !.username = Some(username),
                                            !.password = Some(password)]]]
  /\ UNCHANGED <<users, items, nextId, now, ticks, clientToken, storedToken, axiosAuth>>

\* mutant: an unknown username gets an answer of its own
LoginFindOneLeaky(r) ==
  /\ req[r].route = "login" /\ req[r].pc = "findOne"
  /\ LET q == req[r]
         user == UserFindOne(users, q.body.username[1])
     IN  req' = [req EXCEPT ![r] =
           IF ~IsDefined(user)
           THEN Respond(q, 404, "User not found", Undefined)
           ELSE [q EXCEPT !.pc = "compare", !.doc = user]]
  /\ UNCHANGED <<users, items, nextId, now, ticks, clientToken, storedToken, axiosAuth>>

\* await User.findOne({ username })
LoginFindOne(r) ==
  /\ req[r].route = "login" /\ req[r].pc = "findOne"
  /\ LET q == req[r]
         user == UserFindOne(users, q.body.username[1])
     IN  req' = [req EXCEPT ![r] =
           IF ~IsDefined(user)
           THEN Respond(q, 400, "Invalid credentials", Undefined)
           ELSE [q EXCEPT !.pc = "compare", !.doc = user]]
  /\ UNCHANGED <<users, items, nextId, now, ticks, clientToken, storedToken, axiosAuth>>

\* await bcrypt.compare(password, user.password), then jwt.sign
LoginCompare(r) ==
  /\ req[r].route = "login" /\ req[r].pc = "compare"
  /\ LET q == req[r]
         user == q.doc[1]
         isMatch == BcryptCompare(q.body.password[1], user.password)
         payload == [user |-> [id |-> user.id, username |-> user.username]]
     IN  req' = [req EXCEPT ![r] =
           IF ~isMatch
           THEN Respond(q, 400, "Invalid credentials", Undefined)
           ELSE Respond(q, 200, "", Some(JwtSign(payload, JWT_SECRET, now)))]
  /\ UNCHANGED <<users, items, nextId, now, ticks, clientToken, storedToken, axiosAuth>>

\* the client keeps the token of a login response (onLoginSuccess)
handleSetToken(r) ==
  /\ req[r].route = "login" /\ req[r].pc = "done" /\ req[r].status = 200
  /\ clientToken # req[r].data
  /\ clientToken' = req[r].data
  /\ storedToken' = req[r].data
  /\ axiosAuth' = BearerOf(req[r].data)
  /\ UNCHANGED <<users, items, nextId, now, ticks, req>>

\* handleLogout: handleSetToken(null)
handleLogout ==
  /\ clientToken # Undefined
  /\ clientToken' = Undefined
  /\ storedToken' = Undefined
  /\ axiosAuth' = NoHeader
  /\ UNCHANGED <<users, items, nextId, now, ticks, req>>

\* the page is loaded: useState(localStorage.getItem('token')); the axios
\* defaults of the new page carry no Authorization header, and the answers
\* to the old page's requests are dropped
PageLoad ==
  /\ \A r \in RaceSlots : Free(r)
  /\ clientToken' = storedToken
  /\ axiosAuth' = NoHeader
  /\ req' = [r \in RaceSlots |-> Idle]
  /\ UNCHANGED <<users, items, nextId, now, ticks, storedToken>>

----------------------------------------------------------------------------
(* The Item collection: a function from _id to document. *)

\* mutant: description is not passed to the constructor
NewItemNoDescription(id, body, t) ==
  [id |-> id,
   name |-> body.name,
   quantity |-> IF body.quantity = Undefined THEN Some(0) ELSE body.quantity,
   description |-> Undefined,
   lastUpdated |-> t]

\* new Item({ name, quantity, description }): the schema's defaults are
\* applied and the _id is generated when the document is constructed
NewItem(id, body, t) ==
  [id |-> id,
   name |-> body.name,
   quantity |-> IF body.quantity = Undefined THEN Some(0) ELSE body.quantity,
   description |-> body.description,
   lastUpdated |-> t]

\* the validation save() runs first: name is a required String (the empty
\* string does not satisfy required), quantity a required Number
ItemValid(doc) ==
  /\ doc.name # Undefined /\ doc.name[1] # ""
  /\ doc.quantity # Undefined

ItemFindById(its, id) ==
  IF id \in DOMAIN its THEN Some(its[id]) ELSE Undefined

ItemInsert(its, doc) ==
  [i \in DOMAIN its \cup {doc.id} |-> IF i = doc.id THEN doc ELSE its[i]]

ItemRemove(its, id) == [i \in DOMAIN its \ {id} |-> its[i]]

\* name || item.name, for an optional string against a stored optional string
OrElse(given, stored) ==
  IF given = Undefined \/ given[1] = "" THEN stored ELSE given

\* mutant: quantity || item.quantity
ApplyPatchFalsyQuantity(item, body, t) ==
  [item EXCEPT
     !.name = OrElse(body.name, item.name),
     !.quantity = IF body.quantity # Undefined /\ body.quantity # Some(0)
                  THEN body.quantity ELSE item.quantity,
     !.description = OrElse(body.description, item.description),
     !.lastUpdated = t]

\* lines 175-178: the document after the four assignments
ApplyPatch(item, body, t) ==
  [item EXCEPT
     !.name = OrElse(body.name, item.name),
     !.quantity = IF body.quantity # Undefined THEN body.quantity ELSE item.quantity,
     !.description = OrElse(body.description, item.description),
     !.lastUpdated = t]

ItemPaths == {"name", "quantity", "description", "lastUpdated"}

\* the paths an assignment marked modified: those whose value changed
ModifiedPaths(old, new) == {p \in ItemPaths : old[p] # new[p]}

\* mutant: save() replaces the stored document by the loaded one
ItemUpdateWholeDocument(its, doc, paths) ==
  [its EXCEPT ![doc.id] = doc]

\* item.save() of a loaded document: the modified paths are $set on the
\* stored document
ItemUpdate(its, doc, paths) ==
  [its EXCEPT ![doc.id] =
     [p \in DOMAIN its[doc.id] |-> IF p \in paths THEN doc[p] ELSE its[doc.id][p]]]

----------------------------------------------------------------------------
(* The protected routes.  The arrival runs authenticateToken and, when it  *)
(* calls next(), the handler up to its first await.                        *)

Gate(r, route, hdr, body, id, pc, doc) ==
  LET a == authenticateToken(hdr, now)
      q == [Idle EXCEPT !.route = route, !.hdr = hdr, !.body = body, !.id = id]
  IN  req' = [req EXCEPT ![r] =
        IF a.status # 0
        THEN Respond(q, a.status, a.message, Undefined)
        ELSE [q EXCEPT !.pc = pc, !.user = a.user, !.doc = doc]]

\* GET /api/items
ListArrive(r, hdr) ==
  /\ Free(r)
  /\ Gate(r, "list", hdr, NoBody, 0, "find", Undefined)
  /\ UNCHANGED <<users, items, nextId, now, ticks, clientToken, storedToken, axiosAuth>>

\* await Item.find()
ListFind(r) ==
  /\ req[r].route = "list" /\ req[r].pc = "find"
  /\ req' = [req EXCEPT ![r] = Respond(req[r], 200, "", Some(items))]
  /\ UNCHANGED <<users, items, nextId, now, ticks, clientToken, storedToken, axiosAuth>>

\* POST /api/items
CreateArrive(r, hdr, body, maxItems) ==
  /\ Free(r)
  /\ nextId <= maxItems
  /\ Gate(r, "create", hdr, body, 0, "save", Some(NewItem(nextId, body, now)))
  /\ nextId' = IF req'[r].pc = "save" THEN nextId + 1 ELSE nextId
  /\ UNCHANGED <<users, items, now, ticks, clientToken, storedToken, axiosAuth>>

\* await newItem.save()
CreateSave(r) ==
  /\ req[r].route = "create" /\ req[r].pc = "save"
  /\ LET q == req[r]
         doc == q.doc[1]
     IN  IF ItemValid(doc)
         THEN /\ items' = ItemInsert(items, doc)
              /\ req' = [req EXCEPT ![r] = Respond(q, 201, "", Some(doc))]
         ELSE /\ items' = items
              /\ req' = [req EXCEPT ![r] = ServerError(q, ValidationMessage)]
  /\ UNCHANGED <<users, nextId, now, ticks, clientToken, storedToken, axiosAuth>>

\* PUT /api/items/:id
UpdateArrive(r, hdr, id, body) ==
  /\ Free(r)
  /\ Gate(r, "update", hdr, body, id, "findById", Undefined)
  /\ UNCHANGED <<users, items, nextId, now, ticks, clientToken, storedToken, axiosAuth>>

\* await Item.findById(req.params.id), then the assignments
UpdateFindById(r) ==
  /\ req[r].route = "update" /\ req[r].pc = "findById"
  /\ LET q == req[r]
         item == ItemFindById(items, q.id)
     IN  req' = [req EXCEPT ![r] =
           IF item = Undefined
           THEN Respond(q, 404, "Item not found", Undefined)
           ELSE LET new == ApplyPatch(item[1], q.body, now)
                IN  [q EXCEPT !.pc = "save", !.doc = Some(new),
                              !.modified = ModifiedPaths(item[1], new)]]
  /\ UNCHANGED <<users, items, nextId, now, ticks, clientToken, storedToken, axiosAuth>>

\* mutant: the write is an upsert, so a document that is gone is put back
UpdateSaveUpsert(r) ==
  /\ req[r].route = "update" /\ req[r].pc = "save"
  /\ LET q == req[r]
         doc == q.doc[1]
     IN  /\ items' = IF doc.id \in DOMAIN items
                     THEN ItemUpdate(items, doc, q.modified)
                     ELSE ItemInsert(items, doc)
         /\ req' = [req EXCEPT ![r] = Respond(q, 200, "", Some(doc))]
  /\ UNCHANGED <<users, nextId, now, ticks, clientToken, storedToken, axiosAuth>>

\* await item.save(): a document that is gone makes save() throw
UpdateSave(r) ==
  /\ req[r].route = "update" /\ req[r].pc = "save"
  /\ LET q == req[r]
         doc == q.doc[1]
     IN  IF ~ItemValid(doc) \/ doc.id \notin DOMAIN items
         THEN /\ items' = items
              /\ req' = [req EXCEPT ![r] =
                   ServerError(q, IF ~ItemValid(doc) THEN ValidationMessage
                                  ELSE NotFoundMessage)]
         ELSE /\ items' = ItemUpdate(items, doc, q.modified)
              /\ req' = [req EXCEPT ![r] = Respond(q, 200, "", Some(doc))]
  /\ UNCHANGED <<users, nextId, now, ticks, clientToken, storedToken, axiosAuth>>

\* DELETE /api/items/:id
DeleteArrive(r, hdr, id) ==
  /\ Free(r)
  /\ Gate(r, "delete", hdr, NoBody, id, "findById", Undefined)
  /\ UNCHANGED <<users, items, nextId, now, ticks, clientToken, storedToken, axiosAuth>>

\* mutant: no check that the item was found
DeleteFindByIdNoCheck(r) ==
  /\ req[r].route = "delete" /\ req[r].pc = "findById"
  /\ req' = [req EXCEPT ![r] =
       [req[r] EXCEPT !.pc = "deleteOne", !.doc = ItemFindById(items, req[r].id)]]
  /\ UNCHANGED <<users, items, nextId, now, ticks, clientToken, storedToken, axiosAuth>>

\* await Item.findById(req.params.id)
DeleteFindById(r) ==
  /\ req[r].route = "delete" /\ req[r].pc = "findById"
  /\ LET q == req[r]
         item == ItemFindById(items, q.id)
     IN  req' = [req EXCEPT ![r] =
           IF item = Undefined
           THEN Respond(q, 404, "Item not found", Undefined)
           ELSE [q EXCEPT !.pc = "deleteOne", !.doc = item]]
  /\ UNCHANGED <<users, items, nextId, now, ticks, clientToken, storedToken, axiosAuth>>

\* await item.deleteOne()
DeleteOne(r) ==
  /\ req[r].route = "delete" /\ req[r].pc = "deleteOne"
  /\ items' = ItemRemove(items, req[r].id)
  /\ req' = [req EXCEPT ![r] =
       Respond(req[r], 200, "Item removed successfully", Undefined)]
  /\ UNCHANGED <<users, nextId, now, ticks, clientToken, storedToken, axiosAuth>>

----------------------------------------------------------------------------
(* Specifications *)

\* a step of a request that is under way, on the public routes
AuthStep(r) ==
  \/ RegisterFindOne(r)
  \/ RegisterSave(r)
  \/ LoginFindOne(r)
  \/ LoginCompare(r)
  \/ handleSetToken(r)

\* a step of a request that is under way, on the protected routes
ItemStep(r) ==
  \/ ListFind(r)
  \/ CreateSave(r)
  \/ UpdateFindById(r)
  \/ UpdateSave(r)
  \/ DeleteFindById(r)
  \/ DeleteOne(r)

GateBodies ==
  {[NoBody EXCEPT !.name = Some("Widget"), !.quantity = Some(5)]}

\* Spec: one request at a time, one user, any header on any route
Next ==
  \/ Tick(MaxTicks)
  \/ \E r \in Slots : AuthStep(r) \/ ItemStep(r)
  \/ \E r \in Slots, hdr \in PublicHeadersOf(clientToken) :
       \/ RegisterArrive(r, hdr, "ann", "pw1")
       \/ LoginArrive(r, hdr, "ann", "pw1")
  \/ \E r \in Slots, hdr \in HeadersOf(clientToken) :
       \/ ListArrive(r, hdr)
       \/ \E body \in GateBodies : CreateArrive(r, hdr, body, GateItems)
       \/ \E id \in 1..GateItems, body \in GateBodies : UpdateArrive(r, hdr, id, body)
       \/ \E id \in 1..GateItems : DeleteArrive(r, hdr, id)

Spec == Init /\ [][Next]_vars

\* SpecAuth: two requests at a time, any credentials
NextAuth ==
  \/ Tick(MaxTicks)
  \/ \E r \in RaceSlots : AuthStep(r) \/ ListFind(r)
  \/ \E r \in RaceSlots, u \in Usernames, p \in Passwords :
       \/ RegisterArrive(r, NoHeader, u, p)
       \/ LoginArrive(r, NoHeader, u, p)
  \/ \E r \in RaceSlots : ListArrive(r, axiosAuth)

SpecAuth == Init /\ [][NextAuth]_vars

\* SpecItems: ann has registered and logged in; one request at a time on
\* the item routes, any body
AnnToken ==
  JwtSign([user |-> [id |-> 1, username |-> "ann"]], JWT_SECRET, 0)

InitItems ==
  /\ users = <<[id |-> 1, username |-> "ann", password |-> BcryptHash("pw1", "s1")]>>
  /\ items = <<>>
  /\ nextId = 1
  /\ now = 0
  /\ ticks = 0
  /\ req = [r \in RaceSlots |->
             IF r = "r1"
             THEN [Idle EXCEPT !.route = "login", !.pc = "done", !.status = 200,
                               !.body = [NoBody EXCEPT !.username = Some("ann"),
                                                       !.password = Some("pw1")],
                               !.data = Some(AnnToken)]
             ELSE Idle]
  /\ clientToken = Some(AnnToken)
  /\ storedToken = Some(AnnToken)
  /\ axiosAuth = BearerOf(Some(AnnToken))

CreateBodies ==
  {[NoBody EXCEPT !.name = Some("Widget"), !.quantity = Some(5)],
   [NoBody EXCEPT !.name = Some("Gadget"), !.description = Some("blue")],
   [NoBody EXCEPT !.name = Some(""), !.quantity = Some(5)],
   [NoBody EXCEPT !.quantity = Some(5), !.description = Some("blue")]}

Patches ==
  {[NoBody EXCEPT !.name = e, !.quantity = q, !.description = e] :
     e \in OptOf({""}), q \in OptOf({0, 5})}
  \cup {[NoBody EXCEPT !.name = Some("Gadget"), !.quantity = Some(5),
                       !.description = Some("blue")]}

NextItems ==
  \/ Tick(ItemTicks)
  \/ \E r \in Slots : ItemStep(r)
  \/ \E r \in Slots :
       \/ ListArrive(r, axiosAuth)
       \/ \E body \in CreateBodies :
            CreateArrive(r, axiosAuth, body, MaxItems)
       \/ \E id \in 1..MaxItems, body \in Patches :
            UpdateArrive(r, axiosAuth, id, body)
       \/ \E id \in 1..MaxItems : DeleteArrive(r, axiosAuth, id)

SpecItems == InitItems /\ [][NextItems]_vars

----------------------------------------------------------------------------
(* Vocabulary of the properties *)

\* in this step a new request arrives in slot r
Arrives(r) == Free(r) /\ req'[r] # req[r]

\* the request in slot r is inside its route handler, or has been answered by it
InHandler(q) ==
  /\ q.pc # "idle"
  /\ ~(q.pc = "done" /\ q.status \in {401, 403})

\* the token of q's header is one the server signed, and q carries its claims
Verified(q) ==
  LET token == HeaderToken(q.hdr)
  IN  /\ token # Undefined
      /\ IsJwt(token[1])
      /\ token[1].sig = JwtMac(token[1].payload, JWT_SECRET)
      /\ token[1].payload.iat <= now
      /\ q.user = Some(token[1].payload)

\* a token that is not the one login issued, or whose hour has passed at time t
Manipulated(w) == IsJwt(w) /\ Some(w) # clientToken
PastTtl(w, t) == IsJwt(w) /\ t >= w.payload.iat + ExpiresIn

----------------------------------------------------------------------------
(* C1: every item operation that reads or changes the item store is made  *)
(* by a request whose bearer token was verified: a protected request that  *)
(* is inside its handler carries verified claims, and the item store       *)
(* changes only in a step of such a request.  Register and login are       *)
(* never answered by the gate, whatever the header.                        *)
C1_Inv ==
  \A r \in RaceSlots :
    /\ (req[r].route \in ItemRoutes /\ InHandler(req[r])) => Verified(req[r])
    /\ (req[r].route \in ItemRoutes /\ ~InHandler(req[r])) =>
          (req[r].user = Undefined /\ req[r].data = Undefined)
    /\ req[r].route \in AuthRoutes =>
          /\ req[r].status \notin {401, 403}
          /\ req[r].pc = "done" => req[r].status \in {200, 201, 400, 500}

C1_Act ==
  /\ (items' # items \/ nextId' # nextId) =>
        \E r \in RaceSlots :
          /\ req'[r] # req[r]
          /\ req'[r].route \in ItemRoutes
          /\ Verified(req'[r])
  /\ \A r \in RaceSlots :
       (Arrives(r) /\ req'[r].route \in AuthRoutes) => req'[r].pc = "findOne"

\* C1: item operations are made by verified requests only; register and login are never gated
C1_GatedStore == []C1_Inv /\ [][C1_Act]_vars

\* a verified request has changed the store, and a register sent with a
\* garbage token has been processed
C1_Witness ==
  /\ \E r \in Slots :
       /\ req[r].route = "login" /\ req[r].status = 200
       /\ req[r].hdr = Some(<<StrWord("Bearer"), StrWord("garbage")>>)
  /\ DOMAIN items # {}

(* C2: a protected request without a credential header is answered 401    *)
(* 'No token provided'; its handler does not run and the store is as it    *)
(* was.                                                                    *)
C2_Inv ==
  \A r \in RaceSlots :
    (req[r].route \in ItemRoutes /\ req[r].hdr = NoHeader) =>
      /\ req[r].pc = "done"
      /\ req[r].status = 401
      /\ req[r].message = "No token provided"
      /\ req[r].user = Undefined /\ req[r].doc = Undefined /\ req[r].data = Undefined

C2_Act ==
  \A r \in RaceSlots :
    (Arrives(r) /\ req'[r].route \in ItemRoutes /\ req'[r].hdr = NoHeader) =>
      (items' = items /\ nextId' = nextId)

\* C2: a protected request with no credential header gets 401 and does not run
C2_NoHeader == []C2_Inv /\ [][C2_Act]_vars

\* every protected route has been tried without a header while an item is stored
C2_Witness ==
  /\ DOMAIN items # {}
  /\ \E r \in Slots :
       /\ req[r].route = "delete" /\ req[r].hdr = NoHeader
       /\ req[r].id \in DOMAIN items

(* C3: a protected request whose token was manipulated, or is presented   *)
(* an hour or more after it was issued, is answered 403 and does not run:  *)
(* the store is as it was.                                                 *)
C3_Act ==
  \A r \in RaceSlots :
    LET token == HeaderToken(req'[r].hdr)
    IN  (/\ Arrives(r)
         /\ req'[r].route \in ItemRoutes
         /\ token # Undefined
         /\ Manipulated(token[1]) \/ PastTtl(token[1], now)) =>
          /\ req'[r].pc = "done"
          /\ req'[r].status = 403
          /\ req'[r].user = Undefined
          /\ items' = items /\ nextId' = nextId

\* C3: a manipulated or expired token gets 403 and the request does not run
C3_BadToken == [][C3_Act]_vars

\* the genuine token was refused (so it had expired) while an item is stored
C3_Witness ==
  /\ DOMAIN items # {}
  /\ \E r \in Slots :
       /\ req[r].route \in ItemRoutes /\ req[r].status = 403
       /\ HeaderToken(req[r].hdr) = clientToken
       /\ req[r].hdr[1][1] = StrWord("Bearer")

\* a token with a forged signature was refused
C3_WitnessForged ==
  \E r \in Slots :
    /\ req[r].route \in ItemRoutes /\ req[r].status = 403
    /\ clientToken # Undefined
    /\ HeaderToken(req[r].hdr) = Some(TamperSig(clientToken[1]))

----------------------------------------------------------------------------
(* Vocabulary of the credential properties *)

\* the request in slot r is answered in this step
Completes(r) == req[r].pc \notin {"idle", "done"} /\ req'[r].pc = "done"

Present(us, username) == \E i \in 1..Len(us) : us[i].username = username

\* username is stored with a hash made from password: what a successful
\* register of the pair leaves behind
Registered(us, username, password) ==
  \E i \in 1..Len(us) :
    /\ us[i].username = username
    /\ us[i].password = BcryptHash(password, us[i].password.salt)

\* username is stored, with a hash made from another password
WrongPassword(us, username, password) ==
  \E i \in 1..Len(us) :
    /\ us[i].username = username
    /\ us[i].password # BcryptHash(password, us[i].password.salt)

\* moments within the hour of a token issued at iat
WithinTtl(iat) == {iat, iat + TickStep, iat + ExpiresIn - 1} \cap (iat..(iat + ExpiresIn - 1))

\* verify accepts w at every moment within its ttl, with claims naming username
Accepted(w, username) ==
  /\ IsJwt(w)
  /\ \A t \in WithinTtl(w.payload.iat) :
       LET v == JwtVerify(w, JWT_SECRET, t)
       IN  v.err = "" /\ v.user # Undefined /\ v.user[1].user.username = username

(* C4: a login with credentials that were registered is answered with a   *)
(* token that verify accepts within its ttl and whose claims name that     *)
(* username; a protected request sent with the token within its ttl        *)
(* passes the gate and carries those claims.                               *)
C4_Inv ==
  \A r \in RaceSlots :
    (req[r].route = "login" /\ req[r].pc = "done" /\ req[r].status = 200) =>
      /\ req[r].data # Undefined
      /\ Accepted(req[r].data[1], req[r].body.username[1])

C4_Act ==
  \A r \in RaceSlots :
    /\ (/\ req[r].route = "login" /\ Completes(r)
        /\ Registered(users, req[r].body.username[1], req[r].body.password[1])) =>
          /\ req'[r].status = 200
          /\ req'[r].data # Undefined
          /\ Accepted(req'[r].data[1], req[r].body.username[1])
    /\ (/\ Arrives(r) /\ req'[r].route \in ItemRoutes
        /\ clientToken # Undefined
        /\ req'[r].hdr = BearerOf(clientToken)
        /\ ~PastTtl(clientToken[1], now)) =>
          /\ req'[r].pc # "done"
          /\ req'[r].user = Some(clientToken[1].payload)

\* C4: register then login yields a token that verify accepts, names the user and passes the gate
C4_RegisterLogin == []C4_Inv /\ [][C4_Act]_vars

\* bob registered second, logged in, and his token opened a protected route
C4_Witness ==
  /\ Len(users) = 2 /\ users[2].username = "bob"
  /\ clientToken # Undefined
  /\ \E r \in RaceSlots :
       /\ req[r].route = "list" /\ req[r].status = 200
       /\ req[r].user # Undefined
       /\ req[r].user[1].user.username = "bob"
       /\ HeaderToken(req[r].hdr) = clientToken

(* C5: a login that fails because the username is not registered and one  *)
(* that fails because the password is wrong get the same answer, status    *)
(* 400 with 'Invalid credentials' and no token, and leave the users and    *)
(* the client's token as they were.                                        *)
InvalidCredentials(q) ==
  q.status = 400 /\ q.message = "Invalid credentials" /\ q.data = Undefined

C5_Act ==
  \A r \in RaceSlots :
    (/\ req[r].route = "login" /\ Completes(r)
     /\ \/ ~Present(users, req[r].body.username[1])
        \/ WrongPassword(users, req[r].body.username[1], req[r].body.password[1])) =>
      /\ InvalidCredentials(req'[r])
      /\ users' = users
      /\ clientToken' = clientToken

C5_Inv ==
  \A r1, r2 \in RaceSlots :
    (/\ req[r1].route = "login" /\ req[r1].pc = "done" /\ req[r1].status # 200
     /\ req[r2].route = "login" /\ req[r2].pc = "done" /\ req[r2].status # 200) =>
      /\ req[r1].status = req[r2].status
      /\ req[r1].message = req[r2].message
      /\ req[r1].data = req[r2].data

\* C5: unknown username and wrong password get the same answer and write nothing
C5_SameFailure == []C5_Inv /\ [][C5_Act]_vars

\* the two failures side by side: an unknown username, and a known one
\* with the wrong password
C5_Witness ==
  /\ req["r1"].route = "login" /\ req["r1"].pc = "done"
  /\ req["r2"].route = "login" /\ req["r2"].pc = "done"
  /\ ~Present(users, req["r1"].body.username[1])
  /\ WrongPassword(users, req["r2"].body.username[1], req["r2"].body.password[1])
  /\ req["r1"].status = 400 /\ req["r2"].status = 400

(* C6: a register whose username is present when it looks the username up *)
(* is answered 400 'User already exists' and changes nothing; no step      *)
(* ever rewrites a stored user, so the first password stays the one that   *)
(* logs in.                                                                *)
C6_Act ==
  /\ \A r \in RaceSlots :
       (/\ req[r].route = "register" /\ req[r].pc = "findOne" /\ req'[r] # req[r]
        /\ Present(users, req[r].body.username[1])) =>
         /\ req'[r].pc = "done"
         /\ req'[r].status = 400
         /\ req'[r].message = "User already exists"
         /\ users' = users
  /\ Len(users') >= Len(users)
  /\ \A i \in 1..Len(users) : users'[i] = users[i]
  /\ \A r \in RaceSlots :
       (/\ req[r].route = "login" /\ Completes(r)
        /\ Present(users, req[r].body.username[1])) =>
         (req'[r].status = 200 <=>
            Registered(users, req[r].body.username[1], req[r].body.password[1]))

\* C6: registering a present username gets 400 'User already exists' and rewrites nothing
C6_Duplicate == [][C6_Act]_vars

\* ann, registered with pw1, was registered again with pw2 and refused,
\* and then the second password did not log in
C6_Witness ==
  /\ Registered(users, "ann", "pw1")
  /\ req["r1"].route = "register" /\ req["r1"].status = 400
  /\ req["r1"].body.username = Some("ann") /\ req["r1"].body.password = Some("pw2")
  /\ req["r2"].route = "login" /\ req["r2"].status = 400
  /\ req["r2"].body.username = Some("ann") /\ req["r2"].body.password = Some("pw2")

(* C7: the users hold at most one record per username, whatever the       *)
(* interleaving of concurrent registers.                                   *)
C7_UniqueUsername ==
  \A i, j \in 1..Len(users) : users[i].username = users[j].username => i = j

\* two registers of one username both passed the lookup before either
\* saved; one was stored and the other failed in save
C7_Witness ==
  /\ req["r1"].route = "register" /\ req["r2"].route = "register"
  /\ req["r1"].body.username = req["r2"].body.username
  /\ req["r1"].status = 201 /\ req["r2"].status = 500

----------------------------------------------------------------------------
(* Vocabulary of the item properties *)

\* the request in slot r takes a step
Moves(r) == req'[r] # req[r]

Falsy(o) == o = Undefined \/ o = Some("")

\* the partial-update policy, field by field
PolicyName(stored, patch) == IF Falsy(patch.name) THEN stored.name ELSE patch.name
PolicyQuantity(stored, patch) ==
  IF patch.quantity = Undefined THEN stored.quantity ELSE patch.quantity
PolicyDescription(stored, patch) ==
  IF Falsy(patch.description) THEN stored.description ELSE patch.description

OthersUnchanged(id) ==
  /\ DOMAIN items' \ {id} = DOMAIN items \ {id}
  /\ \A i \in DOMAIN items \ {id} : items'[i] = items[i]

(* C8: an update of an existing item whose patch holds strings and        *)
(* numbers: name and description keep the stored value when the patch      *)
(* value is absent or empty and take the patch value otherwise; quantity   *)
(* keeps the stored value when absent and takes the patch value otherwise, *)
(* zero included; lastUpdated becomes the time the handler ran; the id and *)
(* the other items are as they were.                                       *)
C8_Act ==
  \A r \in RaceSlots :
    /\ (/\ req[r].route = "update" /\ req[r].pc = "findById" /\ Moves(r)
        /\ req[r].id \in DOMAIN items) =>
          /\ req'[r].pc = "save"
          /\ req'[r].doc # Undefined
          /\ req'[r].doc[1].lastUpdated = now
          /\ items' = items
    /\ (/\ req[r].route = "update" /\ req[r].pc = "save" /\ Moves(r)
        /\ req[r].id \in DOMAIN items) =>
          LET id == req[r].id
          IN  /\ req'[r].pc = "done" /\ req'[r].status = 200
              /\ id \in DOMAIN items'
              /\ items'[id].id = id
              /\ items'[id].name = PolicyName(items[id], req[r].body)
              /\ items'[id].quantity = PolicyQuantity(items[id], req[r].body)
              /\ items'[id].description = PolicyDescription(items[id], req[r].body)
              /\ items'[id].lastUpdated = req[r].doc[1].lastUpdated
              /\ req'[r].data = Some(items'[id])
              /\ OthersUnchanged(id)

\* C8: updateItem follows the partial-update policy
C8_PartialUpdate == [][C8_Act]_vars

\* a patch of only quantity = 0 was applied, later than the item was made,
\* next to another item
C8_Witness ==
  \E r \in Slots :
    /\ req[r].route = "update" /\ req[r].status = 200
    /\ req[r].body = [NoBody EXCEPT !.quantity = Some(0)]
    /\ DOMAIN items = {1, 2}
    /\ items[req[r].id].quantity = Some(0)
    /\ items[req[r].id].name = Some("Gadget")
    /\ items[req[r].id].description = Some("blue")
    /\ items[req[r].id].lastUpdated = now /\ now > 0

\* a patch with an empty name and an empty description left both in place
C8_WitnessEmpty ==
  \E r \in Slots :
    /\ req[r].route = "update" /\ req[r].status = 200
    /\ req[r].body.name = Some("") /\ req[r].body.description = Some("")
    /\ items[req[r].id].name = Some("Gadget")
    /\ items[req[r].id].description = Some("blue")

(* C9: an update or a delete that looks up an id the store does not hold  *)
(* is answered 404 'Item not found' and leaves the store as it was; a      *)
(* delete that succeeds removes the id, so the next delete of it is        *)
(* answered 404.                                                           *)
C9_Act ==
  \A r \in RaceSlots :
    /\ (/\ req[r].route \in {"update", "delete"} /\ req[r].pc = "findById" /\ Moves(r)
        /\ req[r].id \notin DOMAIN items) =>
          /\ req'[r].pc = "done"
          /\ req'[r].status = 404
          /\ req'[r].message = "Item not found"
          /\ items' = items /\ nextId' = nextId
    /\ (/\ req[r].route = "delete" /\ Completes(r) /\ req'[r].status = 200) =>
          /\ req[r].id \notin DOMAIN items'
          /\ OthersUnchanged(req[r].id)
    /\ (/\ req[r].route = "delete" /\ req[r].pc = "findById" /\ Moves(r)
        /\ req[r].id \in DOMAIN items) => req'[r].pc = "deleteOne"

C10_Inv ==
  /\ \A id \in DOMAIN items : id < nextId /\ items[id].id = id
  /\ \A r \in RaceSlots :
       (req[r].route = "create" /\ req[r].pc = "save") =>
         /\ req[r].doc[1].id < nextId
         /\ req[r].doc[1].id \notin DOMAIN items
         /\ req[r].doc[1].lastUpdated <= now
         /\ \A r2 \in RaceSlots \ {r} :
              (req[r2].route = "create" /\ req[r2].pc = "save") =>
                req[r2].doc[1].id # req[r].doc[1].id

C10_Act ==
  \A r \in RaceSlots :
    /\ (Arrives(r) /\ req'[r].route = "create" /\ req'[r].pc = "save") =>
          /\ req'[r].doc[1].id = nextId /\ nextId' = nextId + 1
          /\ req'[r].doc[1].lastUpdated = now
    /\ (req[r].route = "create" /\ Completes(r) /\ req'[r].status = 201) =>
          LET id == req[r].doc[1].id
              new == items'[id]
          IN  /\ DOMAIN items' = DOMAIN items \cup {id}
              /\ id \notin DOMAIN items
              /\ new.id = id
              /\ new.name = req[r].body.name /\ ~Falsy(new.name)
              /\ new.quantity = IF req[r].body.quantity = Undefined
                                THEN Some(0) ELSE req[r].body.quantity
              /\ new.description = req[r].body.description
              /\ new.lastUpdated = req[r].doc[1].lastUpdated
              /\ req'[r].data = Some(new)
              /\ OthersUnchanged(id)
    /\ (req[r].route = "list" /\ Completes(r)) =>
          /\ req'[r].status = 200
          /\ req'[r].data = Some(items)
          /\ items' = items /\ nextId' = nextId /\ users' = users

\* C10: a successful create adds exactly the given record; list returns the store unchanged
C10_CreateThenList == []C10_Inv /\ [][C10_Act]_vars

\* Widget x5 was created after another item, and a list returned both
C10_Witness ==
  \E r \in Slots :
    /\ req[r].route = "list" /\ req[r].status = 200
    /\ req[r].data = Some(items)
    /\ DOMAIN items = {1, 2}
    /\ items[2].name = Some("Widget") /\ items[2].quantity = Some(5)
    /\ items[2].description = Undefined
    /\ items[1].lastUpdated < items[2].lastUpdated

----------------------------------------------------------------------------
\* the kind of a failure, as the caller sees it: the status and the message
Kind(q) == [status |-> q.status, message |-> q.message]

\* the kind every caught exception is answered with
ServerErrorKind == [status |-> 500, message |-> "Server error"]

(* C11: a create whose name is absent or empty is answered with a         *)
(* validation failure, a kind other than the generic server error, and     *)
(* inserts nothing.                                                        *)
C11_Act ==
  \A r \in RaceSlots :
    (req[r].route = "create" /\ Completes(r) /\ Falsy(req[r].body.name)) =>
      /\ req'[r].status # 201
      /\ Kind(req'[r]) # ServerErrorKind
      /\ items' = items

\* C11: createItem without a name fails with a validation error that is not
\* the generic server error, and inserts nothing
C11_ValidationKind == [][C11_Act]_vars

\* the half of C11 that the handler keeps: nothing is inserted and the
\* validator's text is passed along in the error field
C11_NothingInserted ==
  [][\A r \in RaceSlots :
       (req[r].route = "create" /\ Completes(r) /\ Falsy(req[r].body.name)) =>
         /\ req'[r].status = 500
         /\ req'[r].error = ValidationMessage
         /\ items' = items]_vars

----------------------------------------------------------------------------
(* SpecRace: ann is logged in and has created Widget x5; two requests at  *)
(* a time update, delete and list it.                                      *)

WidgetBody == [NoBody EXCEPT !.name = Some("Widget"), !.quantity = Some(5)]

InitRace ==
  /\ users = <<[id |-> 1, username |-> "ann", password |-> BcryptHash("pw1", "s1")]>>
  /\ items = ItemInsert(<<>>, NewItem(1, WidgetBody, 0))
  /\ nextId = 2
  /\ now = 0
  /\ ticks = 0
  /\ req = [r \in RaceSlots |->
             IF r = "r1"
             THEN [Idle EXCEPT !.route = "create", !.pc = "done", !.status = 201,
                               !.hdr = BearerOf(Some(AnnToken)),
                               !.body = WidgetBody,
                               !.user = Some(AnnToken.payload),
                               !.data = Some(NewItem(1, WidgetBody, 0))]
             ELSE Idle]
  /\ clientToken = Some(AnnToken)
  /\ storedToken = Some(AnnToken)
  /\ axiosAuth = BearerOf(Some(AnnToken))

RacePatches ==
  {[NoBody EXCEPT !.name = Some("Gadget"), !.quantity = Some(0)],
   [NoBody EXCEPT !.name = Some("Widget"), !.quantity = Some(7)],
   [NoBody EXCEPT !.description = Some("blue")]}

RaceStep(r) ==
  \/ ListFind(r)
  \/ UpdateFindById(r)
  \/ UpdateSave(r)
  \/ DeleteFindById(r)
  \/ DeleteOne(r)

NextRace ==
  \/ Tick(ItemTicks)
  \/ \E r \in RaceSlots : RaceStep(r)
  \/ \E r \in RaceSlots :
       \/ ListArrive(r, axiosAuth)
       \/ \E id \in 1..(nextId - 1), body \in RacePatches :
            UpdateArrive(r, axiosAuth, id, body)
       \/ \E id \in 1..(nextId - 1) : DeleteArrive(r, axiosAuth, id)

SpecRace == InitRace /\ [][NextRace]_vars

----------------------------------------------------------------------------
(* Vocabulary of the race properties *)

PatchPaths == {"name", "quantity", "description"}

\* the patch gives path a value that the partial-update policy takes
Provides(body, path) ==
  IF path = "quantity" THEN body.quantity # Undefined ELSE ~Falsy(body[path])

\* slot r writes an update of an item that is in the store
Writes(r) ==
  /\ req[r].route = "update" /\ req[r].pc = "save" /\ Moves(r)
  /\ req[r].id \in DOMAIN items

\* slot o holds the answer of an update of the same item that was written
Wrote(o, id) ==
  req[o].route = "update" /\ req[o].pc = "done" /\ req[o].status = 200 /\ req[o].id = id

(* C12 as claimed: of two updates of one existing item, neither is        *)
(* rejected, and after the later write every field both patches provide    *)
(* holds the later writer's value.                                         *)
C12_ClaimAct ==
  \A r, o \in RaceSlots :
    (r # o /\ Writes(r) /\ Wrote(o, req[r].id)) =>
      /\ req'[r].status = 200
      /\ \A path \in PatchPaths :
           (Provides(req[r].body, path) /\ Provides(req[o].body, path)) =>
             items'[req[r].id][path] = req[r].body[path]

\* C12 (as claimed): both concurrent updates succeed and the last write wins
\* on every field both patches provide
C12_LastWriteWins == [][C12_ClaimAct]_vars

(* C12, what the code keeps: no update is rejected; a write sets exactly   *)
(* the paths its request changed against the document it read, leaves the *)
(* others as stored, so a field both patches provide holds the later       *)
(* writer's value when that value differs from what the later writer read, *)
(* and otherwise keeps what the earlier write stored.                      *)
C12_ChangedAct ==
  \A r \in RaceSlots :
    /\ (/\ req[r].route = "update" /\ req[r].pc = "findById" /\ Moves(r)
        /\ req[r].id \in DOMAIN items) =>
          \A path \in PatchPaths :
            Provides(req[r].body, path) =>
              /\ req'[r].doc[1][path] = req[r].body[path]
              /\ path \in req'[r].modified <=> items[req[r].id][path] # req[r].body[path]
    /\ Writes(r) =>
          /\ req'[r].status = 200
          /\ req'[r].data = req[r].doc
          /\ \A path \in PatchPaths :
               items'[req[r].id][path] =
                 IF path \in req[r].modified THEN req[r].doc[1][path]
                 ELSE items[req[r].id][path]
          /\ \A o \in RaceSlots \ {r}, path \in PatchPaths :
               (/\ Wrote(o, req[r].id)
                /\ Provides(req[r].body, path) /\ Provides(req[o].body, path)
                /\ path \in req[r].modified) =>
                 items'[req[r].id][path] = req[r].body[path]

\* C12, what the code keeps: both succeed; the last write wins on the fields it changed
C12_LastChangeWins == [][C12_ChangedAct]_vars

\* both updates were answered 200; the quantity is the one of the later
\* write (7 over 0) but the name is the earlier writer's, though the later
\* patch gave a name too
C12_Witness ==
  /\ Wrote("r1", 1) /\ Wrote("r2", 1)
  /\ req["r1"].body = [NoBody EXCEPT !.name = Some("Gadget"), !.quantity = Some(0)]
  /\ req["r2"].body = [NoBody EXCEPT !.name = Some("Widget"), !.quantity = Some(7)]
  /\ 1 \in DOMAIN items
  /\ items[1].quantity = Some(7)
  /\ items[1].name = Some("Gadget")

----------------------------------------------------------------------------
\* slot o holds the answer of a delete of id that succeeded
Deleted(o, id) ==
  req[o].route = "delete" /\ req[o].pc = "done" /\ req[o].status = 200 /\ req[o].id = id

\* a create under way is about to store id
BeingCreated(id) ==
  \E r \in RaceSlots :
    req[r].route = "create" /\ req[r].pc = "save" /\ req[r].doc[1].id = id

(* C13: once a delete of an id has been answered with success, the id is  *)
(* not in the store and no list that is answered afterwards returns it;    *)
(* an id that has left the store never comes back, and an update that      *)
(* read the item before the delete and writes after it fails and writes    *)
(* nothing.                                                                *)
C13_Inv ==
  \A o \in RaceSlots, id \in 1..(nextId - 1) :
    Deleted(o, id) => id \notin DOMAIN items

C13_Act ==
  /\ \A id \in 1..(nextId - 1) :
       (id \notin DOMAIN items /\ ~BeingCreated(id)) => id \notin DOMAIN items'
  /\ \A r, o \in RaceSlots :
       (/\ r # o /\ req[r].route = "list" /\ Completes(r)
        /\ Deleted(o, req[o].id)) =>
         /\ req'[r].data # Undefined
         /\ req[o].id \notin DOMAIN req'[r].data[1]
  /\ \A r \in RaceSlots :
       (/\ req[r].route = "update" /\ req[r].pc = "save" /\ Moves(r)
        /\ req[r].id \notin DOMAIN items) =>
         /\ req'[r].status = 500
         /\ items' = items

\* C13: after a successful delete no list returns the id, whatever updates
\* of the id are under way
C13_DeletedStaysDeleted == []C13_Inv /\ [][C13_Act]_vars

\* the delete of item 1 succeeded, and an update that had read item 1
\* before wrote after it: its save failed and the store is empty
C13_Witness ==
  /\ Deleted("r1", 1)
  /\ req["r2"].route = "update" /\ req["r2"].pc = "done" /\ req["r2"].id = 1
  /\ req["r2"].status = 500 /\ req["r2"].error = NotFoundMessage
  /\ DOMAIN items = {}

----------------------------------------------------------------------------
(* The client: one browser tab of a registered user.  LoginPage is        *)
(* rendered while the token state is null, InventoryDashboard otherwise.  *)

InitClient ==
  /\ users = <<[id |-> 1, username |-> "ann", password |-> BcryptHash("pw1", "s1")]>>
  /\ items = <<>>
  /\ nextId = 1
  /\ now = 0
  /\ ticks = 0
  /\ req = [r \in RaceSlots |-> Idle]
  /\ clientToken = Undefined
  /\ storedToken = Undefined
  /\ axiosAuth = NoHeader

\* LoginPage.handleSubmit: axios.post(`${API_URL}/login`, ...)
handleSubmit(r, username, password) ==
  /\ clientToken = Undefined
  /\ LoginArrive(r, axiosAuth, username, password)

\* onLoginSuccess(res.data.token)
onLoginSuccess(r) ==
  /\ clientToken = Undefined
  /\ handleSetToken(r)

\* InventoryDashboard.fetchItems, run when the dashboard is mounted
fetchItems(r) ==
  /\ clientToken # Undefined
  /\ ListArrive(r, axiosAuth)

\* itemData of InventoryDashboard.handleFormSubmit: the three fields of the
\* form, quantity as a number
FormBodies ==
  {[NoBody EXCEPT !.name = Some("Widget"), !.quantity = Some(5),
                  !.description = Some("")],
   [NoBody EXCEPT !.name = Some("Gadget"), !.quantity = Some(0),
                  !.description = Some("blue")]}

\* InventoryDashboard.handleFormSubmit with no item being edited
handleFormSubmitAdd(r, itemData) ==
  /\ clientToken # Undefined
  /\ CreateArrive(r, axiosAuth, itemData, GateItems)

\* InventoryDashboard.handleFormSubmit with editingItem set
handleFormSubmitEdit(r, id, itemData) ==
  /\ clientToken # Undefined
  /\ UpdateArrive(r, axiosAuth, id, itemData)

\* InventoryDashboard.handleDelete, confirmed
handleDelete(r, id) ==
  /\ clientToken # Undefined
  /\ DeleteArrive(r, axiosAuth, id)

NextClient ==
  \/ Tick(ItemTicks)
  \/ PageLoad
  \/ handleLogout
  \/ \E r \in Slots :
       \/ \E p \in Passwords : handleSubmit(r, "ann", p)
       \/ LoginFindOne(r)
       \/ LoginCompare(r)
       \/ onLoginSuccess(r)
       \/ fetchItems(r)
       \/ \E itemData \in FormBodies : handleFormSubmitAdd(r, itemData)
       \/ \E id \in DOMAIN items, itemData \in FormBodies :
            handleFormSubmitEdit(r, id, itemData)
       \/ \E id \in DOMAIN items : handleDelete(r, id)
       \/ ItemStep(r)

SpecClient == InitClient /\ [][NextClient]_vars

(* C14: in the client, while the token state is non-null the default      *)
(* Authorization header is 'Bearer <that token>', and while it is null    *)
(* the header is absent and local storage keeps no token.                 *)
C14_HeaderFollowsToken ==
  /\ clientToken # Undefined => axiosAuth = BearerOf(clientToken)
  /\ clientToken = Undefined => (axiosAuth = NoHeader /\ storedToken = Undefined)

\* C14, the half that the code keeps: while the token state is null the
\* header is absent and local storage keeps no token; the token state is
\* what local storage keeps
C14_SignedOut ==
  /\ clientToken = storedToken
  /\ clientToken = Undefined => axiosAuth = NoHeader

\* the page was loaded with a token in local storage: the dashboard is
\* rendered, its fetch went out without a header and was answered 401
C14_Witness ==
  /\ clientToken # Undefined
  /\ ~PastTtl(clientToken[1], now)
  /\ axiosAuth = NoHeader
  /\ req["r1"].route = "list" /\ req["r1"].pc = "done"
  /\ req["r1"].hdr = NoHeader /\ req["r1"].status = 401

====
